---- MODULE Spec2Model ----
(***************************************************************************)
(* award_pynder: the five funder adapters (Mellon, NIH, NSF, Sloan,        *)
(* Templeton) and their get_data drivers, modelled as one state machine.   *)
(* One get_data call runs at a time; every network round trip is one step  *)
(* of the model, and the remote service answers each request with any of a *)
(* small set of responses.                                                 *)
(***************************************************************************)
EXTENDS Integers, Sequences, FiniteSets, TLC

(***************************************************************************)
(* Bounds of the model.                                                    *)
(***************************************************************************)
\* page requests of one get_data call that the model follows
MaxPages == 3

(***************************************************************************)
(* Program constants.                                                      *)
(***************************************************************************)
NSF_DEFAULT_CHUNK_SIZE == 25
NIH_DEFAULT_CHUNK_SIZE == 500
SLOAN_DEFAULT_CHUNK_SIZE == 3000
MELLON_DEFAULT_CHUNK_SIZE == 100
NIH_TOO_MANY == 10000

ALL_DATASET_FIELDS ==
    {"institution", "pi", "year", "start", "end", "program", "amount", "id",
     "title", "abstract", "query", "source"}

NSF_DEFAULT_METADATA_SET ==
    {"id", "date", "startDate", "expDate", "title", "awardeeName",
     "piFirstName", "piLastName", "cfdaNumber", "estimatedTotalAmt",
     "abstractText", "piEmail"}

NIH_DEFAULT_METADATA_SET ==
    {"Organization", "ProjectNum", "ProjectSerialNum", "FiscalYear",
     "ProjectStartDate", "ProjectEndDate", "ProjectTitle", "AgencyCode",
     "AbstractText", "ContactPiName", "AwardAmount", "AwardNoticeDate"}

\* the keys of one record of an NIH "results" list (snake case, as read by
\* NIH._format_dataframe)
NIH_RESULT_KEYS ==
    {"organization", "project_num", "project_serial_num", "fiscal_year",
     "project_start_date", "project_end_date", "project_title", "agency_code",
     "abstract_text", "contact_pi_name", "award_amount", "award_notice_date"}

\* the fields of one entity of the Mellon bulk query
MELLON_ENTITY_KEYS ==
    {"title", "grantMakingArea", "description", "dateAwarded", "id", "grantee"}

\* the keys of one row built by Sloan._get_chunk
SLOAN_ROW_KEYS ==
    {"institution", "amount", "year", "title", "id", "program", "pi"}

\* the columns of the Templeton bulk table that _format_dataframe renames
TEMPLETON_TABLE_COLUMNS ==
    {"Start Year", "ID", "Title", "Project Leader(s)", "Grantee(s)",
     "Grant Amount", "Funding Area"}

Adapters == {"Mellon", "NIH", "NSF", "Sloan", "Templeton"}
CountFirst == {"Mellon", "NIH", "Sloan"}

(***************************************************************************)
(* Python values.                                                          *)
(***************************************************************************)
\* None, where the other values are strings
NoneV == "None"
\* an optional date is a sequence of at most one year: <<>> is None
NoDate == <<>>
Truthy(opt) == opt # <<>>
YearOfDate(opt) == opt[1]

(***************************************************************************)
(* Tables (pandas DataFrames): a set of column names and a sequence of     *)
(* rows; a row keeps its index label and the cells the claims read.        *)
(***************************************************************************)
DataFrame(cols, rows) == [isNone |-> FALSE, columns |-> cols, rows |-> rows]
\* the None a skipped page stands for
NoneChunk == [isNone |-> TRUE, columns |-> {}, rows |-> <<>>]

\* the award the remote holds under identifier i
Rec(i) == [id |-> i, year |-> 2020 + (i % 2)]
\* n consecutive records starting at identifier first
Recs(first, n) == [k \in 1..n |-> Rec(first + k - 1)]

\* pd.DataFrame(list of mappings): no columns at all for an empty list
FrameOfRecords(recs, keys) ==
    DataFrame(IF Len(recs) = 0 THEN {} ELSE keys,
              [k \in 1..Len(recs) |->
                  [index |-> k - 1, id |-> recs[k].id, year |-> recs[k].year,
                   query |-> NoneV]])

\* pd.DataFrame(columns=...)
EmptyFrame(cols) == DataFrame(cols, <<>>)

\* df[col] = scalar query
SetQuery(rows, query) ==
    [k \in 1..Len(rows) |-> [rows[k] EXCEPT !.query = query]]

\* .reset_index(drop=True), and the relabelling of ignore_index=True
ResetIndex(rows) == [k \in 1..Len(rows) |-> [rows[k] EXCEPT !.index = k - 1]]

RECURSIVE ConcatRows(_, _)
ConcatRows(chunks, k) ==
    IF k > Len(chunks) THEN <<>>
    ELSE (IF chunks[k].isNone THEN <<>> ELSE chunks[k].rows)
         \o ConcatRows(chunks, k + 1)

RECURSIVE ConcatColumns(_, _)
ConcatColumns(chunks, k) ==
    IF k > Len(chunks) THEN {}
    ELSE (IF chunks[k].isNone THEN {} ELSE chunks[k].columns)
         \cup ConcatColumns(chunks, k + 1)

\* pd.concat raises ValueError for an empty list and for a list of None only
ConcatRaises(chunks) == \A k \in 1..Len(chunks) : chunks[k].isNone

\* pd.concat(chunks, ignore_index=True): None entries are dropped
Concat(chunks) ==
    DataFrame(ConcatColumns(chunks, 1), ResetIndex(ConcatRows(chunks, 1)))

\* .drop_duplicates(subset="id"): the first row of every id, labels kept
DropDuplicatesById(rows) ==
    LET First(k) == \A j \in 1..(k - 1) : rows[j].id # rows[k].id
        RECURSIVE Keep(_)
        Keep(k) == IF k > Len(rows) THEN <<>>
                   ELSE IF First(k) THEN <<rows[k]>> \o Keep(k + 1)
                   ELSE Keep(k + 1)
    IN Keep(1)

\* df[df.year >= y] and df[df.year <= y]
FilterYearFrom(rows, y) ==
    LET K(r) == r.year >= y IN SelectSeq(rows, K)
FilterYearTo(rows, y) ==
    LET K(r) == r.year <= y IN SelectSeq(rows, K)

\* the result of a try block: a table, or an exception
Ok(df) == [ok |-> TRUE, df |-> df]
Raises == [ok |-> FALSE, df |-> NoneChunk]

(***************************************************************************)
(* What the remote service answers.  A request either raises inside the    *)
(* HTTP client (kind "conn") or comes back with a status (ok) and a body   *)
(* of some shape: "garbage" cannot be parsed into the expected container,  *)
(* "absent" is a parsed body without the record list, "list" carries the   *)
(* records, "total" a count, "links" the bookmark links of a search page,  *)
(* "table" the bulk table (wellFormed: one link per row) and "notable" a   *)
(* page without it.                                                        *)
(***************************************************************************)
Response(kind, ok, shape, recs, total, links) ==
    [kind |-> kind, ok |-> ok, shape |-> shape, recs |-> recs,
     total |-> total, links |-> links]
ConnError == Response("conn", FALSE, "none", <<>>, 0, {})
Garbage(ok) == Response("http", ok, "garbage", <<>>, 0, {})
Absent(ok) == Response("http", ok, "absent", <<>>, 0, {})
List(ok, recs) == Response("http", ok, "list", recs, 0, {})
Total(ok, n) == Response("http", ok, "total", <<>>, n, {})
Links(ok, ids) == Response("http", ok, "links", <<>>, 0, ids)
Table(ok, recs, wellFormed) ==
    Response("http", ok, IF wellFormed THEN "table" ELSE "badlinks", recs, 0, {})
NoTable(ok) == Response("http", ok, "notable", <<>>, 0, {})
Amount(ok) == Response("http", ok, "amount", <<>>, 0, {})
NoResponse == Response("none", FALSE, "none", <<>>, 0, {})

(***************************************************************************)
(* Network events of one call, in order: the requests with the response    *)
(* each got, and the politeness delays.  failed records whether the try    *)
(* block the request belongs to raised.                                    *)
(***************************************************************************)
Request(what, arg, limit, resp, failed) ==
    [what |-> what, arg |-> arg, limit |-> limit, resp |-> resp,
     failed |-> failed]
\* time.sleep(2)
Sleep == Request("sleep", 2, 0, NoResponse, FALSE)

(***************************************************************************)
(* _format_dataframe of every adapter: KeyError when a column it reads is  *)
(* missing, else exactly the canonical columns.                            *)
(***************************************************************************)
\* df.rename(columns=m)
RenameColumns(cols, m) ==
    {IF c \in DOMAIN m THEN m[c] ELSE c : c \in cols}

\* df[ALL_DATASET_FIELDS]
SelectAll(cols, rows) ==
    IF ALL_DATASET_FIELDS \subseteq cols
    THEN Ok(DataFrame(ALL_DATASET_FIELDS, rows))
    ELSE Raises

\* "for col in ALL_DATASET_FIELDS: if col not in df: df[col] = None"
FillMissing(cols) == cols \cup ALL_DATASET_FIELDS

NSF_RENAME ==
    ("awardeeName" :> "institution") @@ ("date" :> "year")
    @@ ("startDate" :> "start") @@ ("expDate" :> "end")
    @@ ("cfdaNumber" :> "program") @@ ("estimatedTotalAmt" :> "amount")
    @@ ("abstractText" :> "abstract")

NSF_format_dataframe(df, query) ==
    IF ~({"piFirstName", "piLastName", "startDate", "expDate", "date"}
            \subseteq df.columns)
    THEN Raises
    ELSE LET cols == ((df.columns \cup {"pi"}) \ {"piFirstName", "piLastName"})
                     \cup {"query", "source"}
         IN SelectAll(RenameColumns(cols, NSF_RENAME), SetQuery(df.rows, query))

NIH_RENAME ==
    ("organization" :> "institution") @@ ("contact_pi_name" :> "pi")
    @@ ("fiscal_year" :> "year") @@ ("agency_code" :> "program")
    @@ ("award_amount" :> "amount") @@ ("project_num" :> "id")
    @@ ("project_title" :> "title") @@ ("abstract_text" :> "abstract")

NIH_format_dataframe(df, query) ==
    IF ~({"project_start_date", "project_end_date"} \subseteq df.columns)
    THEN Raises
    ELSE LET cols == RenameColumns(
                         df.columns \cup {"start", "end", "query", "source"},
                         NIH_RENAME)
         IN IF "amount" \notin cols THEN Raises
            ELSE SelectAll(cols, SetQuery(df.rows, query))

MELLON_RENAME ==
    ("grantee" :> "institution") @@ ("description" :> "abstract")
    @@ ("estimatedTotalAmt" :> "amount") @@ ("grantMakingArea" :> "program")

Mellon_format_dataframe(df, query) ==
    IF "dateAwarded" \notin df.columns
    THEN Raises
    ELSE LET cols == RenameColumns(
                         df.columns \cup {"year", "query", "source"},
                         MELLON_RENAME)
         IN SelectAll(FillMissing(cols), SetQuery(df.rows, query))

Sloan_format_dataframe(df, query) ==
    SelectAll(FillMissing(df.columns \cup {"query", "source"}),
              SetQuery(df.rows, query))

TEMPLETON_RENAME ==
    ("Start Year" :> "year") @@ ("ID" :> "id") @@ ("Title" :> "title")
    @@ ("Project Leader(s)" :> "pi") @@ ("Grantee(s)" :> "institution")
    @@ ("Grant Amount" :> "amount") @@ ("Funding Area" :> "program")

Templeton_format_dataframe(df, query) ==
    SelectAll(FillMissing(RenameColumns(df.columns \cup {"query", "source"},
                                        TEMPLETON_RENAME)),
              SetQuery(df.rows, query))

(***************************************************************************)
(* Dates: the values _format_date_for_pynder_standard takes and gives.     *)
(* A string is the sequence of its numeric tokens, each with the number of *)
(* digits it is written with, and the separator between them.              *)
(***************************************************************************)
Value(type, y, m, d, h, sep, tokens) ==
    [type |-> type, y |-> y, m |-> m, d |-> d, h |-> h, sep |-> sep,
     tokens |-> tokens]
NoneDt == Value("None", 0, 0, 0, 0, "", <<>>)
Datetime(y, m, d, h) == Value("datetime", y, m, d, h, "", <<>>)
Date(y, m, d) == Value("date", y, m, d, 0, "", <<>>)
IntValue(n) == Value("int", n, 0, 0, 0, "", <<>>)
Str(sep, tokens) == Value("str", 0, 0, 0, 0, sep, tokens)
Tok(val, width) == [val |-> val, width |-> width]

IsLeap(y) == (y % 4 = 0 /\ y % 100 # 0) \/ y % 400 = 0
DaysInMonth(y, m) ==
    IF m = 2 THEN (IF IsLeap(y) THEN 29 ELSE 28)
    ELSE IF m \in {4, 6, 9, 11} THEN 30 ELSE 31

\* datetime(y, m, d): ValueError outside the calendar
ValidDate(y, m, d) ==
    /\ y \in 1..9999
    /\ m \in 1..12
    /\ d \in 1..DaysInMonth(y, m)

\* dateutil's two-digit-year rule: the century of today, within 50 years
convertyear(year, century_specified, today) ==
    IF year < 100 /\ ~century_specified
    THEN LET y == year + (today.y \div 100) * 100
         IN IF y >= today.y + 50 THEN y - 100
            ELSE IF y < today.y - 50 THEN y + 100
            ELSE y
    ELSE year

\* a field the string does not give
NotGiven == -1

\* dateutil's resolve_ymd with dayfirst and yearfirst off: which of the
\* numeric tokens is the year, the month, the day
resolve_ymd(t) ==
    LET n == Len(t)
        ymd(y, m, d, c) == [y |-> y, m |-> m, d |-> d, century |-> c]
        wide(k) == t[k].width > 2
    IN IF n = 1
       THEN IF t[1].val > 31
            THEN ymd(t[1].val, NotGiven, NotGiven, t[1].val > 100)
            ELSE ymd(NotGiven, NotGiven, t[1].val, FALSE)
       ELSE IF n = 2
       THEN IF t[1].val > 31
            THEN ymd(t[1].val, t[2].val, NotGiven, wide(1))
            ELSE IF t[2].val > 31
            THEN ymd(t[2].val, t[1].val, NotGiven, wide(2))
            ELSE ymd(NotGiven, t[1].val, t[2].val, FALSE)
       ELSE IF t[1].val > 31 \/ wide(1)
            THEN ymd(t[1].val, t[2].val, t[3].val, wide(1))
            ELSE IF t[1].val > 12
            THEN ymd(t[3].val, t[2].val, t[1].val, wide(3))
            ELSE ymd(t[3].val, t[1].val, t[2].val, wide(3))

\* dateutil.parser.parse(s): the fields not given come from today, the day
\* cut to the length of the month; an exception for what is not a date
dateutil_parse(s, today) ==
    IF Len(s.tokens) \notin 1..3 THEN [ok |-> FALSE, dt |-> NoneDt]
    ELSE LET r == resolve_ymd(s.tokens)
             y == IF r.y = NotGiven THEN today.y
                  ELSE convertyear(r.y, r.century, today)
             m == IF r.m = NotGiven THEN today.m ELSE r.m
             d == IF r.d # NotGiven THEN r.d
                  ELSE IF m \in 1..12 /\ today.d > DaysInMonth(y, m)
                  THEN DaysInMonth(y, m) ELSE today.d
         IN IF ValidDate(y, m, d)
            THEN [ok |-> TRUE, dt |-> Datetime(y, m, d, 0)]
            ELSE [ok |-> FALSE, dt |-> NoneDt]

\* datetime.date()
date(dt) == Date(dt.y, dt.m, dt.d)

\* a faulty date.isoformat(): DD-MM-YYYY
isoformat_dayfirst(dt) ==
    Str("-", <<Tok(dt.d, 2), Tok(dt.m, 2), Tok(dt.y, 4)>>)

\* date.isoformat(): YYYY-MM-DD, the year on four digits
isoformat(dt) == Str("-", <<Tok(dt.y, 4), Tok(dt.m, 2), Tok(dt.d, 2)>>)

\* what a call gives: a value, or an exception
Gives(v) == [raised |-> FALSE, value |-> v]
Throws == [raised |-> TRUE, value |-> NoneDt]

\* no result yet
Pending == [raised |-> FALSE, value |-> Value("pending", 0, 0, 0, 0, "", <<>>)]

\* a faulty formatter: no test for None
format_date_without_none_test(dt, fmt, today) ==
    LET p == IF dt.type = "str" THEN dateutil_parse(dt, today)
             ELSE [ok |-> TRUE, dt |-> dt]
    IN IF ~p.ok \/ p.dt.type # "datetime" THEN Throws
       ELSE IF fmt = "year" THEN Gives(IntValue(p.dt.y))
       ELSE Gives(isoformat(date(p.dt)))

\* DataSource._format_date_for_pynder_standard(dt, fmt); a value that is
\* neither None, a string nor a datetime has no .year and no .date()
format_date_for_pynder_standard(dt, fmt, today) ==
    IF dt.type = "None" THEN Gives(NoneDt)
    ELSE LET p == IF dt.type = "str" THEN dateutil_parse(dt, today)
                  ELSE [ok |-> TRUE, dt |-> dt]
         IN IF ~p.ok \/ p.dt.type # "datetime" THEN Throws
            ELSE IF fmt = "year" THEN Gives(IntValue(p.dt.y))
            ELSE Gives(isoformat(date(p.dt)))

\* the clock: the date dateutil takes the missing fields from
Todays == {[y |-> 2026, m |-> 11, d |-> 1], [y |-> 2025, m |-> 1, d |-> 31]}

\* the arguments the formatter is called with: None, datetimes, and strings
\* in the forms YYYY-M-D, A/B/Y, A/Y, YYYY and one that is no date
FormatYears == {99, 2021}
FormatFields == {1, 4, 12, 13, 30, 31}
FormatInputs ==
    {NoneDt, Str("?", <<>>)}
    \cup {Datetime(y, m, d, h) :
              y \in FormatYears, m \in {2, 12}, d \in {1, 13, 28}, h \in {0, 23}}
    \cup {Str("-", <<Tok(y, 4), Tok(a, 2), Tok(b, 2)>>) :
              y \in FormatYears, a \in FormatFields, b \in FormatFields}
    \cup {Str("/", <<Tok(a, 2), Tok(b, 2), yy>>) :
              a \in FormatFields, b \in FormatFields,
              yy \in {Tok(2021, 4), Tok(21, 2), Tok(99, 2)}}
    \cup {Str("/", <<Tok(a, 2), Tok(2021, 4)>>) : a \in FormatFields}
    \cup {Str("", <<Tok(2021, 4)>>), Str("", <<Tok(99, 2)>>)}

NoFormatCall == [dt |-> NoneDt, fmt |-> "date", today |-> [y |-> 0, m |-> 0, d |-> 0]]

(***************************************************************************)
(* Mellon._format_query_params: the variables of the GraphQL query.        *)
(***************************************************************************)
\* DataSource._parse_datetime(dt): a string is parsed, a datetime is kept
parse_datetime(dt, today) ==
    IF dt.type = "str" THEN dateutil_parse(dt, today)
    ELSE [ok |-> TRUE, dt |-> dt]

\* list(range(a, b))
range(a, b) == IF b > a THEN [k \in 1..(b - a) |-> a + k - 1] ELSE <<>>

\* a faulty year list: the year of to_datetime is left out
Mellon_years_exclusive(from_parsed, to_parsed) ==
    range(from_parsed.y, to_parsed.y)

\* the years between from and to
Mellon_years(from_parsed, to_parsed) ==
    range(from_parsed.y, to_parsed.y + 1)

Params(term, offset, years, limit) ==
    [raised |-> FALSE, term |-> term, offset |-> offset, years |-> years,
     limit |-> limit]
ParamsRaise == [raised |-> TRUE, term |-> "", offset |-> 0, years |-> <<>>,
                limit |-> 0]
NoParams == [raised |-> FALSE, term |-> "", offset |-> 0, years |-> <<>>,
             limit |-> 0]

\* Mellon._format_query_params; utcnow is what datetime.utcnow() gives
Mellon_format_query_params(query, from_datetime, to_datetime, offset, limit, utcnow) ==
    LET to1 == IF from_datetime # NoneDt /\ to_datetime = NoneDt
               THEN Datetime(utcnow.y, utcnow.m, utcnow.d, 0)
               ELSE to_datetime
        term == IF query = NoneV THEN "" ELSE query
    IN IF from_datetime # NoneDt /\ to1 # NoneDt
       THEN LET f == parse_datetime(from_datetime, utcnow)
                t == parse_datetime(to1, utcnow)
            IN IF ~f.ok \/ ~t.ok THEN ParamsRaise
               ELSE Params(term, offset, Mellon_years(f.dt, t.dt), limit)
       ELSE Params(term, offset, <<>>, limit)

\* the dates the function is called with: none, datetimes, strings
QueryDates ==
    {NoneDt, Datetime(2019, 1, 1, 0), Datetime(2021, 12, 31, 23),
     Datetime(2027, 1, 1, 0),
     Str("-", <<Tok(2020, 4), Tok(6, 2), Tok(15, 2)>>), Str("?", <<>>)}

NoQueryCall ==
    [query |-> NoneV, from_datetime |-> NoneDt, to_datetime |-> NoneDt,
     offset |-> 0, limit |-> 0, utcnow |-> [y |-> 0, m |-> 0, d |-> 0]]

(***************************************************************************)
(* The module-level request templates and the copies the calls work on.    *)
(* A template is the record of the entries the code assigns.               *)
(***************************************************************************)
\* the grantId of _DEFAULT_SINGLE_PARAMS, the empty string
NoGrantId == -1

DefaultTemplates ==
    [bulk |-> [term |-> "", offset |-> 0, years |-> <<>>,
               limit |-> MELLON_DEFAULT_CHUNK_SIZE],
     single |-> [grantId |-> NoGrantId],
     nih |-> [from_date |-> NoneDt, to_date |-> NoneDt, search_text |-> NoneV,
              limit |-> NIH_DEFAULT_CHUNK_SIZE, offset |-> 0]]

\* a faulty copy: the template itself, not a copy of it
deepcopy_alias(obj) == [value |-> obj, same |-> TRUE]

\* copy.deepcopy(obj): a new object with the value of obj
deepcopy(obj) == [value |-> obj, same |-> FALSE]

\* the module-level object after item assignments through ref made it (or
\* its copy) equal to assigned
AfterAssignments(obj, ref, assigned) == IF ref.same THEN assigned ELSE obj

\* a date argument of get_data as a datetime
AsDatetime(opt) == IF opt = NoDate THEN NoneDt ELSE Datetime(opt[1], 1, 1, 0)

\* _DEFAULT_BULK_PARAMS after one call of Mellon._format_query_params
Mellon_bulk_after(templ, query, from_datetime, to_datetime, off, limit, utcnow) ==
    LET p == Mellon_format_query_params(query, from_datetime, to_datetime,
                                        off, limit, utcnow)
        params == deepcopy(templ)
    IN IF p.raised THEN templ
       ELSE AfterAssignments(
                templ, params,
                [params.value EXCEPT !.term = p.term, !.offset = p.offset,
                                     !.years = p.years, !.limit = p.limit])

RECURSIVE Mellon_single_after(_, _, _)
\* _DEFAULT_SINGLE_PARAMS after the amount lookups among events, from place k
Mellon_single_after(templ, events, k) ==
    IF k > Len(events) THEN templ
    ELSE IF events[k].what # "amount"
    THEN Mellon_single_after(templ, events, k + 1)
    ELSE LET params == deepcopy(templ)
         IN Mellon_single_after(
                AfterAssignments(templ, params,
                                 [params.value EXCEPT !.grantId = events[k].arg]),
                events, k + 1)

\* NIH._format_datetime
NIH_format_datetime(dt, today) == isoformat(date(parse_datetime(dt, today).dt))

\* _DEFAULT_PARAMS after one call of NIH._format_query
NIH_params_after(templ, query, from_datetime, to_datetime, off, limit, today) ==
    LET params == deepcopy(templ)
    IN AfterAssignments(
           templ, params,
           [params.value EXCEPT
               !.from_date = IF from_datetime # NoneDt
                             THEN NIH_format_datetime(from_datetime, today)
                             ELSE NoneDt,
               !.to_date = IF to_datetime # NoneDt
                           THEN NIH_format_datetime(to_datetime, today)
                           ELSE NoneDt,
               !.search_text = IF query = NoneV THEN "" ELSE query,
               !.limit = limit,
               !.offset = off])

(***************************************************************************)
(* The state of one get_data call.                                         *)
(***************************************************************************)
VARIABLES
    adapter,    \* the class whose get_data is running
    args,       \* query, from_datetime, to_datetime, raise_on_error
    pc,         \* "idle", "count", "pages", "search", "bulk" or "done"
    total,      \* the result of _query_total_grants
    offset,     \* the loop variable of the page loop
    chunks,     \* the list the page loop appends to
    net,        \* the network events of the call so far
    spin,       \* parity of the NSF iterations beyond MaxPages (LiveSpec)
    outcome,    \* what the call gave its caller: nothing yet, a table, an error
    fcall,      \* a call of _format_date_for_pynder_standard: dt, fmt, the date
    fstep,      \* how far it is: "none", "called", "once" or "twice"
    fout,       \* what the call returned or raised
    fagain,     \* what the call on its own result, same fmt, returned or raised
    qcall,      \* a call of Mellon._format_query_params: arguments, the clock
    qstep,      \* how far it is: "none", "called" or "returned"
    qout,       \* what the call returned or raised
    templates   \* the module-level request templates of mellon.py and nih.py

fvars == <<fcall, fstep, fout, fagain, qcall, qstep, qout>>
vars == <<adapter, args, pc, total, offset, chunks, net, spin, outcome,
          fcall, fstep, fout, fagain, qcall, qstep, qout, templates>>

NoOutcome == [kind |-> "none", error |-> "", table |-> NoneChunk]
Returned(df) == [kind |-> "returned", error |-> "", table |-> df]
Raised(e) == [kind |-> "raised", error |-> e, table |-> NoneChunk]

\* the inputs one call is made with
Queries == {NoneV, "software"}
FromDates == {NoDate, <<2021>>}
ToDates == {NoDate, <<2020>>}

\* the requests of the call, delays left out
RequestsOf(events, what) ==
    LET K(e) == e.what = what IN SelectSeq(events, K)
PageRequests == RequestsOf(net, "page")

Init ==
    /\ adapter = NoneV
    /\ args = [query |-> NoneV, from_datetime |-> NoDate,
               to_datetime |-> NoDate, raise_on_error |-> TRUE]
    /\ pc = "idle"
    /\ total = 0
    /\ offset = 0
    /\ chunks = <<>>
    /\ net = <<>>
    /\ spin = 0
    /\ outcome = NoOutcome
    /\ fcall = NoFormatCall
    /\ fstep = "none"
    /\ fout = Pending
    /\ fagain = Pending
    /\ qcall = NoQueryCall
    /\ qstep = "none"
    /\ qout = NoParams
    /\ templates = DefaultTemplates

\* a caller invokes <adapter>.get_data(query, from_datetime, to_datetime,
\* raise_on_error): the locals are fresh, nothing is requested yet
Call ==
    /\ pc \in {"idle", "done"}
    /\ \E a \in Adapters, q \in Queries, f \in FromDates, t \in ToDates,
          r \in BOOLEAN :
        /\ adapter' = a
        /\ args' = [query |-> q, from_datetime |-> f, to_datetime |-> t,
                    raise_on_error |-> r]
        /\ pc' = IF a \in CountFirst THEN "count"
                 ELSE IF a = "NSF" THEN "pages" ELSE "search"
    /\ total' = 0
    /\ offset' = 0
    /\ chunks' = <<>>
    /\ net' = <<>>
    /\ spin' = 0
    /\ outcome' = NoOutcome
    /\ UNCHANGED templates
    /\ UNCHANGED fvars

(***************************************************************************)
(* NSF: no count query; pages of 25 until a page is shorter.               *)
(***************************************************************************)
\* what the awards API may answer to the request at an offset: full pages,
\* short pages and empty pages, the first record of a page possibly being
\* the last one of the page before it
NSFResponses(off) ==
    LET starts == IF off > 0 THEN {off, off - 1} ELSE {off}
    IN {ConnError, Garbage(TRUE), Garbage(FALSE), Absent(TRUE)}
       \cup {List(TRUE, Recs(st, n)) :
                st \in starts, n \in {0, 1, NSF_DEFAULT_CHUNK_SIZE}}
       \cup {List(FALSE, Recs(off, NSF_DEFAULT_CHUNK_SIZE))}

\* the try block of NSF._get_chunk: the status of the response is not read,
\* and _format_dataframe is called without the query
NSF_try(resp) ==
    IF resp.kind = "conn" \/ resp.shape = "garbage" THEN Raises
    ELSE IF resp.shape = "list"
    THEN NSF_format_dataframe(
             FrameOfRecords(resp.recs, NSF_DEFAULT_METADATA_SET), NoneV)
    ELSE NSF_format_dataframe(EmptyFrame(NSF_DEFAULT_METADATA_SET), NoneV)

\* a faulty _get_chunk: the except clause never raises
NSF_get_chunk_swallowing(resp, raise_on_error) ==
    LET t == NSF_try(resp)
    IN [raised |-> FALSE,
        failed |-> ~t.ok,
        chunk |-> IF t.ok THEN t.df ELSE NoneChunk]

\* NSF._get_chunk: the table, or None for a failure that is not raised
NSF_get_chunk(resp, raise_on_error) ==
    LET t == NSF_try(resp)
    IN [raised |-> ~t.ok /\ raise_on_error,
        failed |-> ~t.ok,
        chunk |-> IF t.ok THEN t.df ELSE NoneChunk]

\* the return statement of NSF.get_data
NSF_result(cs) ==
    IF ConcatRaises(cs) THEN Raised("ValueError")
    ELSE LET df == Concat(cs)
         IN Returned(DataFrame(df.columns,
                               ResetIndex(DropDuplicatesById(df.rows))))

\* one iteration of the while loop of NSF.get_data, and the return when the
\* loop breaks
NSFPage ==
    /\ adapter = "NSF"
    /\ pc = "pages"
    /\ Len(PageRequests) < MaxPages
    /\ \E resp \in NSFResponses(offset) :
        LET g == NSF_get_chunk(resp, args.raise_on_error)
            cs == Append(chunks, g.chunk)
        IN /\ net' = Append(net, Request("page", offset, NSF_DEFAULT_CHUNK_SIZE,
                                         resp, g.failed))
           /\ IF g.raised
              THEN /\ pc' = "done"
                   /\ outcome' = Raised("page")
                   /\ UNCHANGED <<chunks, offset>>
              ELSE /\ chunks' = cs
                   /\ IF ~g.chunk.isNone
                         /\ Len(g.chunk.rows) < NSF_DEFAULT_CHUNK_SIZE
                      THEN /\ pc' = "done"
                           /\ outcome' = NSF_result(cs)
                           /\ offset' = offset
                      ELSE /\ pc' = "pages"
                           /\ outcome' = outcome
                           /\ offset' = offset + NSF_DEFAULT_CHUNK_SIZE
    /\ UNCHANGED <<adapter, args, total, spin>>
    /\ UNCHANGED templates
    /\ UNCHANGED fvars

(***************************************************************************)
(* The count-first adapters: Mellon, NIH, Sloan.                           *)
(***************************************************************************)
ChunkSize(a) ==
    CASE a = "Mellon" -> MELLON_DEFAULT_CHUNK_SIZE
      [] a = "NIH" -> NIH_DEFAULT_CHUNK_SIZE
      [] a = "Sloan" -> SLOAN_DEFAULT_CHUNK_SIZE
      [] OTHER -> NSF_DEFAULT_CHUNK_SIZE

\* the totals a count query may report: none, one page (one record, or
\* exactly full), two pages, as many pages as the model follows, and for NIH
\* the totals around its ceiling
Totals(a) ==
    {0, 1, ChunkSize(a), ChunkSize(a) + 1, (MaxPages - 1) * ChunkSize(a) + 1}
    \cup (IF a = "NIH"
          THEN {NIH_TOO_MANY - 1, NIH_TOO_MANY, NIH_TOO_MANY + 1} ELSE {})

CountResponses(a) ==
    {ConnError, Garbage(TRUE), Garbage(FALSE), Total(FALSE, 1)}
    \cup {Total(TRUE, n) : n \in Totals(a)}

\* what a paginated endpoint may answer to the request at an offset: the
\* first two records of that page, no record, or the page before it again
PageResponses(a, off) ==
    {ConnError, Garbage(TRUE), Garbage(FALSE), List(TRUE, <<>>),
     List(TRUE, Recs(off, 2)), List(FALSE, Recs(off, 2))}
    \cup (IF off > 0 THEN {List(TRUE, Recs(off - ChunkSize(a), 2))} ELSE {})

\* a faulty loop range: the last offset is left out when one record remains
HasNextOffset_short(off, tot, size) == off + size + 1 < tot

\* range(0, total, size) has an offset after off
HasNextOffset(off, tot, size) == off + size < tot

\* a faulty _query_total_grants: a failure counts as a total of zero
Count_try_zero(resp) ==
    IF resp.kind = "conn" \/ resp.shape # "total"
    THEN [ok |-> TRUE, total |-> 0]
    ELSE [ok |-> TRUE, total |-> resp.total]

\* the try block of a _query_total_grants that does not read the status
\* (NIH, Sloan): any exception becomes a ValueError
Count_try(resp) ==
    IF resp.kind = "conn" \/ resp.shape # "total"
    THEN [ok |-> FALSE, total |-> 0]
    ELSE [ok |-> TRUE, total |-> resp.total]

\* the try block of Mellon._query_total_grants: raise_for_status first
Mellon_count_try(resp) ==
    IF resp.kind = "conn" \/ ~resp.ok \/ resp.shape # "total"
    THEN [ok |-> FALSE, total |-> 0]
    ELSE [ok |-> TRUE, total |-> resp.total]

\* a try block of _get_chunk: its table or exception, and the network events
\* it made after the page request
TryResult(r, after) == [ok |-> r.ok, df |-> r.df, after |-> after]

\* the except clause of _get_chunk and its "return None"
GetChunk(t, raise_on_error) ==
    [raised |-> ~t.ok /\ raise_on_error,
     failed |-> ~t.ok,
     chunk |-> IF t.ok THEN t.df ELSE NoneChunk,
     after |-> t.after]

(******************************** NIH *************************************)
\* the try block of NIH._get_chunk: the status is not read; an empty result
\* list becomes a frame with the names of _DEFAULT_METADATA_SET
NIH_try(resp, query) ==
    IF resp.kind = "conn" \/ resp.shape # "list" THEN TryResult(Raises, <<>>)
    ELSE LET df == IF Len(resp.recs) > 0
                   THEN FrameOfRecords(resp.recs, NIH_RESULT_KEYS)
                   ELSE EmptyFrame(NIH_DEFAULT_METADATA_SET)
         IN TryResult(NIH_format_dataframe(df, query), <<Sleep>>)

\* a faulty _get_chunk: the except clause raises whatever raise_on_error is
NIH_get_chunk_raising(resp, query, raise_on_error) ==
    GetChunk(NIH_try(resp, query), TRUE)

NIH_get_chunk(resp, query, raise_on_error) ==
    GetChunk(NIH_try(resp, query), raise_on_error)

\* the return statement of NIH.get_data
NIH_result(cs) ==
    IF ConcatRaises(cs) THEN Raised("ValueError")
    ELSE LET df == Concat(cs)
         IN Returned(DataFrame(df.columns, ResetIndex(df.rows)))

\* a faulty ceiling test: a total of exactly 10000 passes
NIH_too_many_strict(tot) == tot > NIH_TOO_MANY

\* the ceiling test of NIH.get_data
NIH_too_many(tot) == tot >= NIH_TOO_MANY

\* NIH.get_data up to its first page request
NIHCount ==
    /\ adapter = "NIH"
    /\ pc = "count"
    /\ \E resp \in CountResponses("NIH") :
        LET c == Count_try(resp)
        IN /\ net' = Append(net, Request("count", 0, 1, resp, ~c.ok))
           /\ total' = c.total
           /\ IF ~c.ok
              THEN pc' = "done" /\ outcome' = Raised("count")
              ELSE IF NIH_too_many(c.total)
              THEN pc' = "done" /\ outcome' = Raised("too many")
              ELSE IF 0 < c.total
              THEN pc' = "pages" /\ outcome' = outcome
              ELSE pc' = "done" /\ outcome' = NIH_result(chunks)
    /\ \E today \in Todays :
        templates' = [templates EXCEPT !.nih =
            NIH_params_after(@, args.query, AsDatetime(args.from_datetime),
                             AsDatetime(args.to_datetime), 0, 1, today)]
    /\ UNCHANGED <<adapter, args, offset, chunks, spin>>
    /\ UNCHANGED fvars

\* one iteration of the for loop of NIH.get_data, and the return after the
\* last one
NIHPage ==
    /\ adapter = "NIH"
    /\ pc = "pages"
    /\ Len(PageRequests) < MaxPages
    /\ \E resp \in PageResponses("NIH", offset) :
        LET g == NIH_get_chunk(resp, args.query, args.raise_on_error)
            cs == IF g.chunk.isNone THEN chunks ELSE Append(chunks, g.chunk)
        IN /\ net' = Append(net, Request("page", offset, NIH_DEFAULT_CHUNK_SIZE,
                                         resp, g.failed)) \o g.after
           /\ IF g.raised
              THEN pc' = "done" /\ outcome' = Raised("page")
                   /\ UNCHANGED <<chunks, offset>>
              ELSE /\ chunks' = cs
                   /\ IF HasNextOffset(offset, total, NIH_DEFAULT_CHUNK_SIZE)
                      THEN /\ offset' = offset + NIH_DEFAULT_CHUNK_SIZE
                           /\ pc' = "pages"
                           /\ outcome' = outcome
                      ELSE /\ offset' = offset
                           /\ pc' = "done"
                           /\ outcome' = NIH_result(cs)
    /\ \E today \in Todays :
        templates' = [templates EXCEPT !.nih =
            NIH_params_after(@, args.query, AsDatetime(args.from_datetime),
                             AsDatetime(args.to_datetime), offset,
                             NIH_DEFAULT_CHUNK_SIZE, today)]
    /\ UNCHANGED <<adapter, args, total, spin>>
    /\ UNCHANGED fvars

(******************************* Sloan ************************************)
\* a faulty _format_query: the page parameter is the number of the page
Sloan_format_query_numbered(query, off, limit) ==
    [limit |-> limit, page |-> (off \div limit) + 1,
     keywords |-> IF query = NoneV THEN "" ELSE query]

\* Sloan._format_query: the parameters of the URL; page is given the offset
Sloan_format_query(query, off, limit) ==
    [limit |-> limit, page |-> off,
     keywords |-> IF query = NoneV THEN "" ELSE query]

\* the try block of Sloan._get_chunk: the status is not read; a list without
\* awards gives a frame without rows
Sloan_try(resp, query) ==
    IF resp.kind = "conn" \/ resp.shape # "list" THEN TryResult(Raises, <<>>)
    ELSE TryResult(
             Sloan_format_dataframe(FrameOfRecords(resp.recs, SLOAN_ROW_KEYS),
                                    query),
             <<Sleep>>)

Sloan_get_chunk(resp, query, raise_on_error) ==
    GetChunk(Sloan_try(resp, query), raise_on_error)

\* Sloan.get_data after the loop: the empty frame, or the concatenation
\* filtered by year
Sloan_result(cs, from_datetime, to_datetime) ==
    IF Len(cs) = 0 THEN Returned(EmptyFrame(ALL_DATASET_FIELDS))
    ELSE LET df == Concat(cs)
             r0 == ResetIndex(df.rows)
             r1 == IF Truthy(from_datetime)
                   THEN FilterYearFrom(r0, YearOfDate(from_datetime)) ELSE r0
             r2 == IF Truthy(to_datetime)
                   THEN FilterYearTo(r1, YearOfDate(to_datetime)) ELSE r1
         IN Returned(DataFrame(df.columns, r2))

\* Sloan.get_data up to its first page request; the count query asks for
\* page 1 with limit 1
SloanCount ==
    /\ adapter = "Sloan"
    /\ pc = "count"
    /\ \E resp \in CountResponses("Sloan") :
        LET c == Count_try(resp)
            url == Sloan_format_query(args.query, 1, 1)
        IN /\ net' = Append(net, Request("count", url.page, url.limit, resp,
                                         ~c.ok))
           /\ total' = c.total
           /\ IF ~c.ok
              THEN pc' = "done" /\ outcome' = Raised("count")
              ELSE IF 0 < c.total
              THEN pc' = "pages" /\ outcome' = outcome
              ELSE pc' = "done"
                   /\ outcome' = Sloan_result(chunks, args.from_datetime,
                                              args.to_datetime)
    /\ UNCHANGED <<adapter, args, offset, chunks, spin>>
    /\ UNCHANGED templates
    /\ UNCHANGED fvars

\* one iteration of the for loop of Sloan.get_data, and the return after the
\* last one
SloanPage ==
    /\ adapter = "Sloan"
    /\ pc = "pages"
    /\ Len(PageRequests) < MaxPages
    /\ \E resp \in PageResponses("Sloan", offset) :
        LET g == Sloan_get_chunk(resp, args.query, args.raise_on_error)
            cs == IF g.chunk.isNone THEN chunks ELSE Append(chunks, g.chunk)
            url == Sloan_format_query(args.query, offset,
                                      SLOAN_DEFAULT_CHUNK_SIZE)
        IN /\ net' = Append(net, Request("page", url.page, url.limit, resp,
                                         g.failed)) \o g.after
           /\ IF g.raised
              THEN pc' = "done" /\ outcome' = Raised("page")
                   /\ UNCHANGED <<chunks, offset>>
              ELSE /\ chunks' = cs
                   /\ IF HasNextOffset(offset, total, SLOAN_DEFAULT_CHUNK_SIZE)
                      THEN /\ offset' = offset + SLOAN_DEFAULT_CHUNK_SIZE
                           /\ pc' = "pages"
                           /\ outcome' = outcome
                      ELSE /\ offset' = offset
                           /\ pc' = "done"
                           /\ outcome' = Sloan_result(cs, args.from_datetime,
                                                      args.to_datetime)
    /\ UNCHANGED <<adapter, args, total, spin>>
    /\ UNCHANGED templates
    /\ UNCHANGED fvars

(******************************* Mellon ***********************************)
\* how the amount lookups of one page go: all answered (failAt = 0), or the
\* failAt-th one answered by failResp
LookupPlans(n) ==
    {[failAt |-> 0, failResp |-> Amount(TRUE)]}
    \cup {[failAt |-> k, failResp |-> r] :
             k \in 1..n, r \in {ConnError, Garbage(FALSE)}}

\* a faulty amount lookup: whatever the answer, nothing is raised
Mellon_get_funded_amount_swallowing(resp) == TRUE

\* the try block of Mellon._get_funded_amount_for_grant: raise_for_status,
\* then the delay
Mellon_get_funded_amount_ok(resp) ==
    resp.kind # "conn" /\ resp.ok /\ resp.shape = "amount"

\* chunk["id"].apply(Mellon._get_funded_amount_for_grant): one request per
\* row, in row order, up to the first one that raises
Mellon_lookups(recs, plan) ==
    LET answer(k) == IF k = plan.failAt THEN plan.failResp ELSE Amount(TRUE)
        RECURSIVE Go(_)
        Go(k) ==
            IF k > Len(recs) THEN <<>>
            ELSE IF Mellon_get_funded_amount_ok(answer(k))
            THEN <<Request("amount", recs[k].id, 0, answer(k), FALSE), Sleep>>
                 \o Go(k + 1)
            ELSE <<Request("amount", recs[k].id, 0, answer(k), TRUE)>>
    IN Go(1)

\* the try block of Mellon._get_chunk
Mellon_try(resp, plan, query) ==
    IF resp.kind = "conn" \/ ~resp.ok \/ resp.shape # "list"
    THEN TryResult(Raises, <<>>)
    ELSE LET chunk == FrameOfRecords(resp.recs, MELLON_ENTITY_KEYS)
             lookups == Mellon_lookups(resp.recs, plan)
         IN IF "id" \notin chunk.columns
            THEN TryResult(Raises, <<Sleep>>)
            ELSE IF \E k \in 1..Len(lookups) : lookups[k].failed
            THEN TryResult(Raises, <<Sleep>> \o lookups)
            ELSE TryResult(
                     Mellon_format_dataframe(
                         DataFrame(chunk.columns \cup {"amount"}, chunk.rows),
                         query),
                     <<Sleep>> \o lookups)

Mellon_get_chunk(resp, plan, query, raise_on_error) ==
    GetChunk(Mellon_try(resp, plan, query), raise_on_error)

\* the return statement of Mellon.get_data
Mellon_result(cs) ==
    IF ConcatRaises(cs) THEN Raised("ValueError")
    ELSE Returned(Concat(cs))

\* Mellon.get_data up to its first page request
MellonCount ==
    /\ adapter = "Mellon"
    /\ pc = "count"
    /\ \E resp \in CountResponses("Mellon") :
        LET c == Mellon_count_try(resp)
        IN /\ net' = Append(net, Request("count", 0, 1, resp, ~c.ok))
           /\ total' = c.total
           /\ IF ~c.ok
              THEN pc' = "done" /\ outcome' = Raised("count")
              ELSE IF 0 < c.total
              THEN pc' = "pages" /\ outcome' = outcome
              ELSE pc' = "done" /\ outcome' = Mellon_result(chunks)
    /\ \E utcnow \in Todays :
        templates' = [templates EXCEPT !.bulk =
            Mellon_bulk_after(@, args.query, AsDatetime(args.from_datetime),
                              AsDatetime(args.to_datetime), 0, 1, utcnow)]
    /\ UNCHANGED <<adapter, args, offset, chunks, spin>>
    /\ UNCHANGED fvars

\* one iteration of the for loop of Mellon.get_data, with the amount lookups
\* of the page, and the return after the last one
MellonPage ==
    /\ adapter = "Mellon"
    /\ pc = "pages"
    /\ Len(PageRequests) < MaxPages
    /\ \E resp \in PageResponses("Mellon", offset) :
       \E plan \in LookupPlans(Len(resp.recs)) :
        LET g == Mellon_get_chunk(resp, plan, args.query, args.raise_on_error)
            cs == IF g.chunk.isNone THEN chunks ELSE Append(chunks, g.chunk)
        IN /\ net' = Append(net, Request("page", offset,
                                         MELLON_DEFAULT_CHUNK_SIZE, resp,
                                         g.failed)) \o g.after
           /\ \E utcnow \in Todays :
               templates' = [templates EXCEPT
                   !.bulk = Mellon_bulk_after(
                                @, args.query, AsDatetime(args.from_datetime),
                                AsDatetime(args.to_datetime), offset,
                                MELLON_DEFAULT_CHUNK_SIZE, utcnow),
                   !.single = Mellon_single_after(@, g.after, 1)]
           /\ IF g.raised
              THEN pc' = "done" /\ outcome' = Raised("page")
                   /\ UNCHANGED <<chunks, offset>>
              ELSE /\ chunks' = cs
                   /\ IF HasNextOffset(offset, total, MELLON_DEFAULT_CHUNK_SIZE)
                      THEN /\ offset' = offset + MELLON_DEFAULT_CHUNK_SIZE
                           /\ pc' = "pages"
                           /\ outcome' = outcome
                      ELSE /\ offset' = offset
                           /\ pc' = "done"
                           /\ outcome' = Mellon_result(cs)
    /\ UNCHANGED <<adapter, args, total, spin>>
    /\ UNCHANGED fvars

(****************************** Templeton *********************************)
\* what the keyword search page may answer: the bookmark links of the grants
\* that match (a grant's link is told by its identifier)
SearchResponses ==
    {ConnError, Links(FALSE, {})} \cup {Links(TRUE, ids) : ids \in SUBSET {0, 1}}

\* what the grant database page may answer: no table, or a table whose body
\* has one link per row or not
BulkResponses ==
    {ConnError, NoTable(TRUE), Table(FALSE, Recs(0, 2), TRUE)}
    \cup {Table(TRUE, Recs(0, n), w) : n \in {2, 3}, w \in BOOLEAN}

\* the links kept from the search page
RelevantLinks == net[Len(net)].resp.links

\* lines 159-169 of Templeton.get_data, reached only from the except clause:
\* df is unbound, or bound to the table as read
Templeton_after_except(bound, df, from_datetime, to_datetime) ==
    IF ~bound THEN Raised("UnboundLocalError")
    ELSE IF Truthy(from_datetime) \/ Truthy(to_datetime)
    THEN IF "year" \in df.columns
         THEN LET r1 == IF Truthy(from_datetime)
                        THEN FilterYearFrom(df.rows, YearOfDate(from_datetime))
                        ELSE df.rows
                  r2 == IF Truthy(to_datetime)
                        THEN FilterYearTo(r1, YearOfDate(to_datetime)) ELSE r1
              IN Returned(DataFrame(df.columns, r2))
         ELSE Raised("KeyError")
    ELSE Returned(df)

\* Templeton.get_data: the search request
TempletonSearch ==
    /\ adapter = "Templeton"
    /\ pc = "search"
    /\ \E resp \in SearchResponses :
        LET failed == resp.kind = "conn"
        IN /\ net' = Append(net, Request("search", 0, 500, resp, failed))
           /\ IF ~failed
              THEN pc' = "bulk" /\ outcome' = outcome
              ELSE /\ pc' = "done"
                   /\ outcome' = IF args.raise_on_error THEN Raised("page")
                                 ELSE Templeton_after_except(
                                          FALSE, NoneChunk, args.from_datetime,
                                          args.to_datetime)
    /\ UNCHANGED <<adapter, args, total, offset, chunks, spin>>
    /\ UNCHANGED templates
    /\ UNCHANGED fvars

\* the try block of Templeton.get_data from the bulk request on: df is bound
\* once read_html has returned
Templeton_try(resp, relevant, query) ==
    IF resp.kind = "conn" \/ resp.shape \notin {"table", "badlinks"}
    THEN [ok |-> FALSE, bound |-> FALSE, df |-> NoneChunk]
    ELSE LET df == FrameOfRecords(resp.recs, TEMPLETON_TABLE_COLUMNS)
             K(r) == r.id \in relevant
             f == Templeton_format_dataframe(
                      DataFrame(df.columns \cup {"link"},
                                SelectSeq(df.rows, K)),
                      query)
         IN IF resp.shape = "badlinks" THEN [ok |-> FALSE, bound |-> TRUE, df |-> df]
            ELSE [ok |-> f.ok, bound |-> TRUE, df |-> IF f.ok THEN f.df ELSE df]

\* Templeton.get_data: the bulk request and the rest of the call
TempletonBulk ==
    /\ adapter = "Templeton"
    /\ pc = "bulk"
    /\ \E resp \in BulkResponses :
        LET t == Templeton_try(resp, RelevantLinks, args.query)
        IN /\ net' = Append(net, Request("bulk", 0, 0, resp, ~t.ok))
           /\ pc' = "done"
           /\ outcome' = IF t.ok THEN Returned(t.df)
                         ELSE IF args.raise_on_error THEN Raised("page")
                         ELSE Templeton_after_except(
                                  t.bound, t.df, args.from_datetime,
                                  args.to_datetime)
    /\ UNCHANGED <<adapter, args, total, offset, chunks, spin>>
    /\ UNCHANGED templates
    /\ UNCHANGED fvars

Next ==
    \/ Call
    \/ NSFPage
    \/ NIHCount
    \/ NIHPage
    \/ SloanCount
    \/ SloanPage
    \/ MellonCount
    \/ MellonPage
    \/ TempletonSearch
    \/ TempletonBulk

Spec == Init /\ [][Next]_vars

(***************************************************************************)
(* The NSF loop beyond the pages the model follows.  The exit test of the  *)
(* loop reads the chunk of the current iteration only, so past MaxPages    *)
(* the model keeps offset, chunks and net as they are and records the      *)
(* parity of the iterations.  The remote holds finitely many awards: a     *)
(* request this far out is answered with a short page, or fails.           *)
(***************************************************************************)
NSFResponsesBeyond(off) ==
    {ConnError, Garbage(FALSE), Absent(TRUE), List(TRUE, Recs(off, 1))}

NSFPageBeyond ==
    /\ adapter = "NSF"
    /\ pc = "pages"
    /\ Len(PageRequests) >= MaxPages
    /\ \E resp \in NSFResponsesBeyond(offset) :
        LET g == NSF_get_chunk(resp, args.raise_on_error)
        IN IF g.raised
           THEN pc' = "done" /\ outcome' = Raised("page") /\ spin' = spin
           ELSE IF ~g.chunk.isNone
                   /\ Len(g.chunk.rows) < NSF_DEFAULT_CHUNK_SIZE
           THEN /\ pc' = "done"
                /\ outcome' = NSF_result(Append(chunks, g.chunk))
                /\ spin' = spin
           ELSE pc' = "pages" /\ outcome' = outcome /\ spin' = 1 - spin
    /\ UNCHANGED <<adapter, args, total, offset, chunks, net>>
    /\ UNCHANGED templates
    /\ UNCHANGED fvars

LiveNext ==
    \/ Next
    \/ NSFPageBeyond

\* a call that has started keeps running: its next step is taken
LiveSpec == Init /\ [][LiveNext]_vars /\ WF_vars(LiveNext)

(***************************************************************************)
(* The formatter on its own: one call on an argument, then a call on what  *)
(* that call returned, with the same fmt, the clock possibly moved on.     *)
(***************************************************************************)
FormatInit ==
    /\ adapter = NoneV
    /\ args = [query |-> NoneV, from_datetime |-> NoDate,
               to_datetime |-> NoDate, raise_on_error |-> TRUE]
    /\ pc = "idle"
    /\ total = 0
    /\ offset = 0
    /\ chunks = <<>>
    /\ net = <<>>
    /\ spin = 0
    /\ outcome = NoOutcome
    /\ fcall \in [dt : FormatInputs, fmt : {"year", "date"}, today : Todays]
    /\ fstep = "called"
    /\ fout = Pending
    /\ fagain = Pending
    /\ qcall = NoQueryCall
    /\ qstep = "none"
    /\ qout = NoParams
    /\ templates = DefaultTemplates

FormatOnce ==
    /\ fstep = "called"
    /\ fout' = format_date_for_pynder_standard(fcall.dt, fcall.fmt, fcall.today)
    /\ fstep' = "once"
    /\ UNCHANGED <<fcall, fagain, qcall, qstep, qout>>
    /\ UNCHANGED templates
    /\ UNCHANGED <<adapter, args, pc, total, offset, chunks, net, spin, outcome>>

FormatTwice ==
    /\ fstep = "once"
    /\ ~fout.raised
    /\ \E today \in Todays :
        fagain' = format_date_for_pynder_standard(fout.value, fcall.fmt, today)
    /\ fstep' = "twice"
    /\ UNCHANGED <<fcall, fout, qcall, qstep, qout>>
    /\ UNCHANGED templates
    /\ UNCHANGED <<adapter, args, pc, total, offset, chunks, net, spin, outcome>>

FormatNext ==
    \/ FormatOnce
    \/ FormatTwice

FormatSpec == FormatInit /\ [][FormatNext]_vars

(***************************************************************************)
(* Mellon._format_query_params on its own.                                 *)
(***************************************************************************)
QueryInit ==
    /\ adapter = NoneV
    /\ args = [query |-> NoneV, from_datetime |-> NoDate,
               to_datetime |-> NoDate, raise_on_error |-> TRUE]
    /\ pc = "idle"
    /\ total = 0
    /\ offset = 0
    /\ chunks = <<>>
    /\ net = <<>>
    /\ spin = 0
    /\ outcome = NoOutcome
    /\ fcall = NoFormatCall
    /\ fstep = "none"
    /\ fout = Pending
    /\ fagain = Pending
    /\ qcall \in [query : Queries, from_datetime : QueryDates,
                  to_datetime : QueryDates, offset : {0, MELLON_DEFAULT_CHUNK_SIZE},
                  limit : {1, MELLON_DEFAULT_CHUNK_SIZE}, utcnow : Todays]
    /\ qstep = "called"
    /\ qout = NoParams
    /\ templates = DefaultTemplates

FormatQueryParams ==
    /\ qstep = "called"
    /\ qout' = Mellon_format_query_params(
                   qcall.query, qcall.from_datetime, qcall.to_datetime,
                   qcall.offset, qcall.limit, qcall.utcnow)
    /\ qstep' = "returned"
    /\ templates' = [templates EXCEPT !.bulk =
           Mellon_bulk_after(@, qcall.query, qcall.from_datetime,
                             qcall.to_datetime, qcall.offset, qcall.limit,
                             qcall.utcnow)]
    /\ UNCHANGED <<qcall, fcall, fstep, fout, fagain>>
    /\ UNCHANGED <<adapter, args, pc, total, offset, chunks, net, spin, outcome>>

QueryNext == FormatQueryParams

QuerySpec == QueryInit /\ [][QueryNext]_vars

(***************************************************************************)
(* Vocabulary of the properties.                                           *)
(***************************************************************************)
Paginating == {"Mellon", "NIH", "NSF", "Sloan"}
ReturnedTable == outcome.kind = "returned"
ResultRows == outcome.table.rows
SomePageFailed == \E i \in 1..Len(PageRequests) : PageRequests[i].failed
SomePageSucceeded == \E i \in 1..Len(PageRequests) : ~PageRequests[i].failed
CountAnswered ==
    \E i \in 1..Len(net) : net[i].what = "count" /\ ~net[i].failed

(***************************************************************************)
(* C1.  Whenever get_data returns a table, for any adapter, any input and  *)
(* both values of raise_on_error, the table's columns are exactly the 12   *)
(* canonical fields.                                                       *)
(***************************************************************************)
C1_CanonicalColumns ==
    ReturnedTable => outcome.table.columns = ALL_DATASET_FIELDS

(***************************************************************************)
(* C2.  The table get_data returns has no two rows with the same id (and   *)
(* so no two equal rows), even when the remote returns one record in two   *)
(* pages.                                                                  *)
(***************************************************************************)
C2_UniqueIds ==
    ReturnedTable =>
        \A i, j \in 1..Len(ResultRows) :
            i # j => ResultRows[i].id # ResultRows[j].id

(***************************************************************************)
(* C3.  With raise_on_error = true a call raises or returns a table with   *)
(* at least one row; it never returns an empty table.                      *)
(***************************************************************************)
C3_NeverSilentlyEmpty ==
    (args.raise_on_error /\ ReturnedTable) => Len(ResultRows) > 0

(***************************************************************************)
(* What a response carries, read off the response alone.                   *)
(***************************************************************************)
\* the response is a page of n records (an absent list is a page of none)
IsPage(resp) == resp.kind = "http" /\ resp.shape \in {"list", "absent"}
NumRecords(resp) == IF resp.shape = "list" THEN Len(resp.recs) ELSE 0

RECURSIVE RecsOfPages(_, _)
\* the records of the page requests that did not fail, in request order
RecsOfPages(pr, k) ==
    IF k > Len(pr) THEN <<>>
    ELSE (IF pr[k].failed THEN <<>> ELSE pr[k].resp.recs)
         \o RecsOfPages(pr, k + 1)

\* the cells of the rows that came from the remote
RowRecs(rows) == [k \in 1..Len(rows) |-> [id |-> rows[k].id, year |-> rows[k].year]]
SetOf(seq) == {seq[k] : k \in 1..Len(seq)}

\* the page requests so far were made at offsets 0, size, 2 * size, ...
OffsetsInOrder ==
    \A i \in 1..Len(PageRequests) :
        PageRequests[i].arg = (i - 1) * ChunkSize(adapter)

(***************************************************************************)
(* C4.  NSF: if pages 0..k-1 each return exactly 25 records and page k     *)
(* returns fewer than 25, possibly none, get_data requests the offsets     *)
(* 0, 25, ..., 25 * k and no more, and returns exactly the records of      *)
(* those pages.                                                            *)
(***************************************************************************)
C4_ShortPageEndsPagination ==
    \A k \in 1..Len(PageRequests) :
        ( /\ adapter = "NSF"
          /\ \A i \in 1..k : IsPage(PageRequests[i].resp)
          /\ \A i \in 1..(k - 1) :
                NumRecords(PageRequests[i].resp) = NSF_DEFAULT_CHUNK_SIZE
          /\ NumRecords(PageRequests[k].resp) < NSF_DEFAULT_CHUNK_SIZE )
        => /\ Len(PageRequests) = k
           /\ OffsetsInOrder
           /\ pc = "done"
           /\ ReturnedTable
           /\ SetOf(RowRecs(ResultRows)) = SetOf(RecsOfPages(PageRequests, 1))

(***************************************************************************)
(* C5.  NIH: a total of 10000 or more raises the "too many" error before   *)
(* any page request, whatever raise_on_error is; with a total of 9999 or   *)
(* less that error is not raised and the page loop runs.                   *)
(***************************************************************************)
C5_Ceiling ==
    (adapter = "NIH" /\ CountAnswered) =>
        IF total >= 10000
        THEN /\ pc = "done"
             /\ outcome = Raised("too many")
             /\ PageRequests = <<>>
        ELSE /\ outcome.error # "too many"
             /\ total > 0 => (pc = "pages" \/ PageRequests # <<>>)

C5_Witness ==
    /\ adapter = "NIH"
    /\ CountAnswered
    /\ total = 10000
    /\ ~args.raise_on_error
    /\ outcome = Raised("too many")

(***************************************************************************)
(* C6.  With raise_on_error = false, when some but not all page requests   *)
(* fail, get_data raises nothing, requests every remaining page, and       *)
(* returns the records of exactly the pages that did not fail, in page     *)
(* order.                                                                  *)
(***************************************************************************)
C6_Case ==
    /\ pc = "done"
    /\ adapter \in Paginating
    /\ ~args.raise_on_error
    /\ SomePageFailed
    /\ SomePageSucceeded

\* every page of the retrieval was requested: all offsets below the total,
\* or for NSF all offsets up to a short page
C6_EveryPageRequested ==
    LET n == Len(PageRequests)
    IN /\ OffsetsInOrder
       /\ adapter \in CountFirst => n * ChunkSize(adapter) >= total
       /\ adapter = "NSF" =>
              /\ ~PageRequests[n].failed
              /\ NumRecords(PageRequests[n].resp) < NSF_DEFAULT_CHUNK_SIZE

\* C6 as stated: with raise_on_error = false and some but not all pages
\* failing, the call returns, every page was requested, and the result is the
\* plain concatenation of the pages that did not fail
C6_SkipFailedPages ==
    C6_Case =>
        /\ ReturnedTable
        /\ C6_EveryPageRequested
        /\ RowRecs(ResultRows) = RecsOfPages(PageRequests, 1)

\* what the adapter's own post-processing leaves of the concatenation: NSF
\* drops the later rows of a repeated id, Sloan the rows outside the years
C6_Surviving(recs) ==
    LET FirstOfId(k) == \A j \in 1..(k - 1) : recs[j].id # recs[k].id
        InYears(k) ==
            /\ Truthy(args.from_datetime) =>
                   recs[k].year >= YearOfDate(args.from_datetime)
            /\ Truthy(args.to_datetime) =>
                   recs[k].year <= YearOfDate(args.to_datetime)
        Kept(k) == CASE adapter = "NSF" -> FirstOfId(k)
                     [] adapter = "Sloan" -> InYears(k)
                     [] OTHER -> TRUE
        RECURSIVE Go(_)
        Go(k) == IF k > Len(recs) THEN <<>>
                 ELSE (IF Kept(k) THEN <<recs[k]>> ELSE <<>>) \o Go(k + 1)
    IN Go(1)

\* C6 as amended: with raise_on_error = false and some but not all pages
\* failing, the call returns, every page was requested, and the result is the
\* concatenation of the pages that did not fail, in page order, less the rows
\* the adapter's post-processing drops
C6_SkipFailedPagesAmended ==
    C6_Case =>
        /\ ReturnedTable
        /\ C6_EveryPageRequested
        /\ RowRecs(ResultRows) = C6_Surviving(RecsOfPages(PageRequests, 1))

C6_Witness ==
    /\ C6_Case
    /\ Len(PageRequests) = 3
    /\ ~PageRequests[1].failed
    /\ PageRequests[2].failed
    /\ ~PageRequests[3].failed
    /\ ReturnedTable
    /\ Len(ResultRows) = 4

(***************************************************************************)
(* C7.  With raise_on_error = true the first page request that fails makes *)
(* get_data raise: no page is requested after it and no table is returned, *)
(* not even the pages fetched before.                                      *)
(***************************************************************************)
C7_AbortOnFirstFailure ==
    \A i \in 1..Len(PageRequests) :
        (args.raise_on_error /\ PageRequests[i].failed) =>
            /\ i = Len(PageRequests)
            /\ pc = "done"
            /\ outcome.kind = "raised"
            /\ outcome.table = NoneChunk

C7_Witness ==
    /\ args.raise_on_error
    /\ Len(PageRequests) = 2
    /\ ~PageRequests[1].failed
    /\ Len(chunks) = 1
    /\ PageRequests[2].failed
    /\ outcome.kind = "raised"

(***************************************************************************)
(* C8.  Mellon, NIH, Sloan with raise_on_error = false and a total above   *)
(* zero: when every page request fails, get_data returns, without raising, *)
(* a table with no rows and exactly the canonical columns.                 *)
(***************************************************************************)
C8_AllPagesFailEmptyTable ==
    ( /\ adapter \in CountFirst
      /\ pc = "done"
      /\ ~args.raise_on_error
      /\ CountAnswered
      /\ total > 0
      /\ PageRequests # <<>>
      /\ ~SomePageSucceeded )
    => /\ ReturnedTable
       /\ Len(ResultRows) = 0
       /\ outcome.table.columns = ALL_DATASET_FIELDS

(***************************************************************************)
(* C9.  Mellon, NIH, Sloan: when the total-count query fails (the request  *)
(* fails or the response cannot be parsed), get_data raises, whatever      *)
(* raise_on_error is, and requests nothing afterwards.                     *)
(***************************************************************************)
C9_CountQueryFailed ==
    /\ adapter \in CountFirst
    /\ net # <<>>
    /\ net[1].what = "count"
    /\ (net[1].resp.kind = "conn" \/ net[1].resp.shape = "garbage")

C9_CountFailureFatal ==
    C9_CountQueryFailed =>
        /\ pc = "done"
        /\ outcome = Raised("count")
        /\ Len(net) = 1

C9_Witness ==
    /\ C9_CountQueryFailed
    /\ ~args.raise_on_error
    /\ net[1].resp.shape = "garbage"
    /\ outcome = Raised("count")

(***************************************************************************)
(* C10.  NSF.get_data always eventually returns or raises, whatever the    *)
(* remote does and whatever raise_on_error is; in particular the loop      *)
(* ends when raise_on_error = false and every page request fails.          *)
(***************************************************************************)
C10_NSFTerminates ==
    (adapter = "NSF" /\ pc = "pages") ~> (pc = "done")

(***************************************************************************)
(* C11.  Mellon, NIH, Sloan: within one call a delay follows every network *)
(* request (count query, page request, amount lookup) before the next      *)
(* request is made; no two requests are made back to back.                 *)
(***************************************************************************)
C11_DelayAfterEveryRequest ==
    adapter \in CountFirst =>
        \A i \in 1..(Len(net) - 1) :
            net[i].what # "sleep" => net[i + 1].what = "sleep"

(***************************************************************************)
(* C12.  Mellon, NIH, Sloan: when the count query reports a total T and no *)
(* page fails, the page requests are made at the offsets 0, size, 2 * size *)
(* ... in that order, each below T, and when the call has returned there   *)
(* were exactly ceil(T / size) of them.                                    *)
(***************************************************************************)
CeilDiv(n, d) == (n + d - 1) \div d

\* what the claim says of the page requests of a call whose pages all succeed
C12_Requests(pages) ==
    LET n == Len(PageRequests)
    IN /\ OffsetsInOrder
       /\ \A i \in 1..n : PageRequests[i].arg < total
       /\ n <= pages
       /\ pc = "pages" => n < pages
       /\ pc = "done" => n = pages

C12_PageRequestsByOffset ==
    (adapter \in CountFirst /\ CountAnswered /\ ~SomePageFailed) =>
        C12_Requests(CeilDiv(total, ChunkSize(adapter)))

\* C12 as amended: the same, except that NIH makes no page request at all
\* when T is 10000 or more
C12_PageRequestsBelowCeiling ==
    (adapter \in CountFirst /\ CountAnswered /\ ~SomePageFailed) =>
        C12_Requests(IF adapter = "NIH" /\ total >= 10000 THEN 0
                     ELSE CeilDiv(total, ChunkSize(adapter)))

C12_Witness ==
    /\ adapter \in CountFirst
    /\ CountAnswered
    /\ ~SomePageFailed
    /\ total = ChunkSize(adapter)
    /\ Len(PageRequests) = 1
    /\ ReturnedTable

(***************************************************************************)
(* C13.  _format_date_for_pynder_standard is idempotent at date            *)
(* granularity: for every input x that parses, formatting format(x, date)  *)
(* again with date gives the same YYYY-MM-DD string.                       *)
(***************************************************************************)
C13_FormatDateIdempotent ==
    (fstep = "twice" /\ fcall.fmt = "date" /\ fcall.dt.type # "None") =>
        /\ fout.value.type = "str"
        /\ fout.value.sep = "-"
        /\ ~fagain.raised
        /\ fagain = fout

\* a string not in ISO form, month before day, was formatted twice
C13_Witness ==
    /\ fstep = "twice"
    /\ fcall.fmt = "date"
    /\ fcall.dt = Str("/", <<Tok(4, 2), Tok(12, 2), Tok(21, 2)>>)
    /\ fout = Gives(Str("-", <<Tok(2021, 4), Tok(4, 2), Tok(12, 2)>>))
    /\ fagain = fout

(***************************************************************************)
(* C14.  _format_date_for_pynder_standard returns None for a None input    *)
(* and does not raise, with fmt year and with fmt date.                    *)
(***************************************************************************)
C14_FormatNoneIsNone ==
    (fstep # "called" /\ fcall.dt = NoneDt) => fout = Gives(NoneDt)

C14_Witness ==
    /\ fstep = "once"
    /\ fcall.dt = NoneDt
    /\ fcall.fmt = "year"
    /\ fout = Gives(NoneDt)

(***************************************************************************)
(* C15.  With raise_on_error = true, a response to a page request (or to   *)
(* the Templeton search or bulk request) whose HTTP status says failure    *)
(* makes get_data raise, even when its body can be parsed; it is never     *)
(* taken for a page.                                                       *)
(***************************************************************************)
C15_FailingStatusRaises ==
    \A i \in 1..Len(net) :
        ( /\ args.raise_on_error
          /\ net[i].what \in {"page", "search", "bulk"}
          /\ net[i].resp.kind = "http"
          /\ ~net[i].resp.ok )
        => /\ net[i].failed
           /\ pc = "done"
           /\ outcome.kind = "raised"

(***************************************************************************)
(* C16.  Templeton with raise_on_error = false: when the search request,   *)
(* the bulk request or the parsing fails, get_data raises nothing and      *)
(* returns a table with exactly the canonical columns.                     *)
(***************************************************************************)
C16_TempletonSkipsFailure ==
    ( /\ adapter = "Templeton"
      /\ pc = "done"
      /\ ~args.raise_on_error
      /\ \E i \in 1..Len(net) : net[i].failed )
    => /\ outcome.kind = "returned"
       /\ outcome.table.columns = ALL_DATASET_FIELDS

(***************************************************************************)
(* C17.  Sloan and Templeton: when from_datetime and/or to_datetime is     *)
(* given, every row of a returned table has its year inside the given      *)
(* years.                                                                  *)
(***************************************************************************)
C17_YearsInsideRange ==
    (adapter \in {"Sloan", "Templeton"} /\ ReturnedTable) =>
        \A k \in 1..Len(ResultRows) :
            /\ Truthy(args.from_datetime) =>
                   ResultRows[k].year >= args.from_datetime[1]
            /\ Truthy(args.to_datetime) =>
                   ResultRows[k].year <= args.to_datetime[1]

(***************************************************************************)
(* C18.  Every row of the table get_data(query = q) returns has q in its   *)
(* query field, and None there only when no search term was given.         *)
(***************************************************************************)
C18_QueryFieldIsQuery ==
    ReturnedTable =>
        \A k \in 1..Len(ResultRows) : ResultRows[k].query = args.query

(***************************************************************************)
(* C19.  The row index of the table get_data returns is 0, 1, ..., n - 1   *)
(* with no gap, also after deduplication and after the year filter.        *)
(***************************************************************************)
C19_IndexSequential ==
    ReturnedTable =>
        \A k \in 1..Len(ResultRows) : ResultRows[k].index = k - 1

(***************************************************************************)
(* C20.  Mellon._format_query_params: with both dates the year list is     *)
(* every year from from_datetime.year through to_datetime.year, none when  *)
(* the first is after the second; with from_datetime alone it runs through *)
(* the current year; with to_datetime alone it is empty.                   *)
(***************************************************************************)
\* the year of a date argument that can be read
C20_Year(dt) == parse_datetime(dt, qcall.utcnow).dt.y
C20_Readable(dt) == parse_datetime(dt, qcall.utcnow).ok

\* years is lo, lo + 1, ..., hi
C20_Through(years, lo, hi) ==
    /\ Len(years) = (IF hi < lo THEN 0 ELSE hi - lo + 1)
    /\ \A k \in 1..Len(years) : years[k] = lo + k - 1

C20_MellonYears ==
    LET f == qcall.from_datetime
        t == qcall.to_datetime
    IN qstep = "returned" =>
        /\ (f # NoneDt /\ t # NoneDt /\ C20_Readable(f) /\ C20_Readable(t)) =>
               /\ ~qout.raised
               /\ C20_Through(qout.years, C20_Year(f), C20_Year(t))
        /\ (f # NoneDt /\ t = NoneDt /\ C20_Readable(f)) =>
               /\ ~qout.raised
               /\ C20_Through(qout.years, C20_Year(f), qcall.utcnow.y)
        /\ (f = NoneDt /\ t # NoneDt) =>
               /\ ~qout.raised
               /\ qout.years = <<>>

\* both dates given, three years apart: the list has the three years
C20_Witness ==
    /\ qstep = "returned"
    /\ qcall.from_datetime = Datetime(2019, 1, 1, 0)
    /\ qcall.to_datetime = Datetime(2021, 12, 31, 23)
    /\ qout.years = <<2019, 2020, 2021>>

(***************************************************************************)
(* C21.  Mellon._get_chunk: each record of a fetched page triggers exactly *)
(* one amount lookup, all of them after the page's request and before the  *)
(* next page's; when one lookup fails the whole page fails: with           *)
(* raise_on_error = false its records are not in the result, with          *)
(* raise_on_error = true the retrieval aborts.                             *)
(***************************************************************************)
\* the page request at place i of the log was answered with records
C21_FetchedPage(i) ==
    /\ net[i].what = "page"
    /\ net[i].resp.kind = "http"
    /\ net[i].resp.ok
    /\ net[i].resp.shape = "list"
    /\ Len(net[i].resp.recs) > 0

RECURSIVE C21_LookupsFrom(_)
\* the amount lookups logged from place k up to the next page request
C21_LookupsFrom(k) ==
    IF k > Len(net) \/ net[k].what = "page" THEN <<>>
    ELSE (IF net[k].what = "amount" THEN <<net[k]>> ELSE <<>>)
         \o C21_LookupsFrom(k + 1)

\* the answer to a lookup is a failure: no answer, a failing status, no amount
C21_LookupFailed(e) ==
    e.resp.kind = "conn" \/ ~e.resp.ok \/ e.resp.shape # "amount"

\* one failing lookup fails the page
C21_FailureFailsPage(i, a) ==
    (\E k \in 1..Len(a) : C21_LookupFailed(a[k])) =>
        /\ net[i].failed
        /\ args.raise_on_error =>
               (pc = "done" /\ outcome.kind = "raised"
                /\ \A j \in (i + 1)..Len(net) : net[j].what # "page")
        /\ ~args.raise_on_error =>
               (outcome.kind # "raised" \/ outcome.error = "ValueError")

\* C21 as stated: one lookup for every record of every fetched page
C21_OneLookupPerRecord ==
    adapter = "Mellon" =>
        /\ \A i \in 1..Len(net) :
            C21_FetchedPage(i) =>
                LET a == C21_LookupsFrom(i + 1)
                    recs == net[i].resp.recs
                IN /\ Len(a) = Len(recs)
                   /\ \A k \in 1..Len(a) : a[k].arg = recs[k].id
                   /\ C21_FailureFailsPage(i, a)
        /\ ReturnedTable => RowRecs(ResultRows) = RecsOfPages(PageRequests, 1)

\* C21 as amended: one lookup for every record, in row order, up to the first
\* lookup that fails, and none for the records after it; one failing lookup
\* fails the page, whose records are then not in the result
C21_LookupsUpToFirstFailure ==
    adapter = "Mellon" =>
        /\ \A i \in 1..Len(net) :
            C21_FetchedPage(i) =>
                LET a == C21_LookupsFrom(i + 1)
                    recs == net[i].resp.recs
                IN /\ Len(a) \in 1..Len(recs)
                   /\ \A k \in 1..Len(a) : a[k].arg = recs[k].id
                   /\ \A k \in 1..(Len(a) - 1) : ~C21_LookupFailed(a[k])
                   /\ Len(a) < Len(recs) => C21_LookupFailed(a[Len(a)])
                   /\ C21_FailureFailsPage(i, a)
        /\ ReturnedTable => RowRecs(ResultRows) = RecsOfPages(PageRequests, 1)

\* a page of two records whose first lookup failed was skipped, and the call
\* returned the records of another page
C21_Witness ==
    /\ adapter = "Mellon"
    /\ ~args.raise_on_error
    /\ ReturnedTable
    /\ Len(ResultRows) = 2
    /\ \E i \in 1..Len(net) :
        /\ C21_FetchedPage(i)
        /\ net[i].failed
        /\ Len(C21_LookupsFrom(i + 1)) = 1
        /\ C21_LookupFailed(C21_LookupsFrom(i + 1)[1])

(***************************************************************************)
(* C22.  Mellon, NIH, NSF, Sloan: a page response holding no record is     *)
(* not an error: _get_chunk makes an empty table of it, so with            *)
(* raise_on_error = true it does not make get_data raise.                  *)
(***************************************************************************)
C22_EmptyPageTolerated ==
    adapter \in Paginating =>
        \A i \in 1..Len(PageRequests) :
            ( /\ IsPage(PageRequests[i].resp)
              /\ PageRequests[i].resp.ok
              /\ NumRecords(PageRequests[i].resp) = 0 )
            => /\ ~PageRequests[i].failed
               /\ args.raise_on_error => outcome # Raised("page")

(***************************************************************************)
(* C23.  After any sequence of get_data calls, on any adapters, with any   *)
(* arguments, succeeding or failing, the module-level request templates    *)
(* (_DEFAULT_BULK_PARAMS and _DEFAULT_SINGLE_PARAMS of Mellon,             *)
(* _DEFAULT_PARAMS of NIH) have their literal default values.              *)
(***************************************************************************)
C23_TemplatesUnchanged ==
    /\ templates.bulk.term = ""
    /\ templates.bulk.offset = 0
    /\ templates.bulk.years = <<>>
    /\ templates.bulk.limit = 100
    /\ templates.single.grantId = NoGrantId
    /\ templates.nih.from_date = NoneDt
    /\ templates.nih.to_date = NoneDt
    /\ templates.nih.search_text = NoneV
    /\ templates.nih.limit = 500
    /\ templates.nih.offset = 0

\* a Mellon call with a search term and a date made page requests and amount
\* lookups, at an offset above zero too, and returned
C23_Witness ==
    /\ adapter = "Mellon"
    /\ args.query = "software"
    /\ Truthy(args.from_datetime)
    /\ Len(PageRequests) = 2
    /\ \E i \in 1..Len(net) : net[i].what = "amount"
    /\ ReturnedTable
    /\ templates = DefaultTemplates

(***************************************************************************)
(* C24.  Sloan.get_data: the page parameter of the k-th page request       *)
(* (k = 0, 1, ...) is the record offset k * 3000, not a page number, and   *)
(* the count query sends page = 1; so when the total is above 3000 and the *)
(* remote numbers its pages 1, 2, 3, ... by 3000 records, some page        *)
(* holding records is never requested.                                     *)
(***************************************************************************)
C24_SloanPageIsOffset ==
    adapter = "Sloan" =>
        /\ \A i \in 1..Len(net) :
               net[i].what = "count" => (net[i].arg = 1 /\ net[i].limit = 1)
        /\ \A i \in 1..Len(PageRequests) :
               /\ PageRequests[i].arg = (i - 1) * 3000
               /\ PageRequests[i].limit = 3000
        /\ total > 3000 =>
               \E page \in 1..CeilDiv(total, 3000) :
                   \A i \in 1..Len(PageRequests) : PageRequests[i].arg # page

\* a total of 3001: the two requests were made with page = 0 and page = 3000
C24_Witness ==
    /\ adapter = "Sloan"
    /\ total = 3001
    /\ pc = "done"
    /\ Len(PageRequests) = 2
    /\ PageRequests[1].arg = 0
    /\ PageRequests[2].arg = 3000

====
